---- MODULE Spec2Model ----
(***************************************************************************)
(* CrashMonitor (angr/exploration_techniques/crash_monitor.py): the        *)
(* exploration technique that follows one path along a recorded trace,     *)
(* classifies the crash (EXEC_STACK / SEG_FAULT) and rebuilds the crashing *)
(* state ("windup").  Exploration states are heap objects named by an      *)
(* identity; the monitor, the stashes and the hooks hold references.       *)
(* The symbolic engine, the simulation manager and the preconstrainer are  *)
(* collaborators: what they hand back is chosen with \E from small sets.   *)
(***************************************************************************)
EXTENDS Integers, Sequences, FiniteSets, TLC

VARIABLES
    trace,          \* self._trace: NoTrace (None) or the length of the trace
    trim_history,   \* self._trim_history
    crash_mode,     \* self._crash_mode
    crash_addr,     \* self._crash_addr: NULL (None) or an address
    last_state,     \* self.last_state: NULL or a state identity
    crash_type,     \* self._crash_type: None, EXEC_STACK or QEMU_CRASH
    crash_state,    \* self._crash_state: NULL or a state identity
    project,        \* self.project has been set by setup()
    stashes,        \* simgr.stashes: stash name -> sequence of state identities
    heap,           \* the live exploration states: identity -> state
    steps,          \* number of step() ticks that found one active path
    completes,      \* number of complete() calls that found a classification
    typeHist,       \* history: the successive values written to _crash_type
    captured,       \* history: the state _check_stack captured in the step that classified EXEC_STACK
    windups,        \* history: number of _crash_windup runs
    call            \* history: what the last handler call did

vars == <<trace, trim_history, crash_mode, crash_addr, last_state, crash_type,
          crash_state, project, stashes, heap, steps, completes, typeHist,
          captured, windups, call>>

config == <<trace, trim_history, crash_mode, crash_addr>>

-----------------------------------------------------------------------------
(* Bounds *)
MaxSteps     == 2   \* step() ticks that find one active path
MaxCompletes == 2   \* complete() calls that find a classification
MaxTrace     == 1   \* longest trace
MaxBlock     == 3   \* longest block the instruction count is tabulated for
MaxConstrained == 2 \* most addresses in _constrained_addrs the hooks are tabulated for

(* Program constants *)
None       == "None"
EXEC_STACK == "EXEC_STACK"
QEMU_CRASH == "SEG_FAULT"
NULL       == 0     \* Python None where a state or an address is expected
NoTrace    == -1    \* trace=None

Addrs == {1, 2, 3}  \* instruction addresses

\* symbolic variables: "file_/dev/stdin_<n>_<idx>_<size>" or any other name
v1 == [stdin |-> TRUE, idx |-> 1]
v2 == [stdin |-> TRUE, idx |-> 2]
v3 == [stdin |-> FALSE, idx |-> 1]

\* address-concretization events the engine can report during a step
Events == { [expr |-> "a", vars |-> {v1}, resolved |-> TRUE, result |-> <<5, 6>>],
            [expr |-> "b", vars |-> {v2, v3}, resolved |-> FALSE, result |-> <<>>] }
EventSeqs == {<<>>} \cup {<<e>> : e \in Events}

\* the instruction-address lists the instruction count is tabulated for
Blocks == UNION {[1..n -> Addrs] : n \in 0..MaxBlock}

\* an engine step leaves no, one or several successors (lines 60, 125-126 tell
\* these apart): one flag per successor of one state
SuccCounts == {0, 1, 2}
SuccFlags == UNION {[1..n -> BOOLEAN] : n \in SuccCounts}

\* successor buckets of windup's final step
FinalSteps == {[flat |-> f, unc |-> u] : f \in {0, 1}, u \in {0, 1}}

Pre   == [kind |-> "pre", expr |-> "stdin", val |-> 0]
Recon == [kind |-> "recon", expr |-> "stdin", val |-> 0]
Eq(var, value) == [kind |-> "eq", expr |-> var, val |-> value]

-----------------------------------------------------------------------------
(* Helpers *)
Range(s) == {s[i] : i \in DOMAIN s}

\* the states some stash or the monitor still references
Live(st, ls, cs) ==
    (UNION {Range(st[k]) : k \in DOMAIN st} \cup {ls, cs}) \ {NULL}

Collect(h, st, ls, cs) == [i \in Live(st, ls, cs) \cap DOMAIN h |-> h[i]]

\* identities for k new states: the smallest ones no state in use carries
RECURSIVE Fresh(_, _)
Fresh(used, k) ==
    IF k = 0 THEN <<>>
    ELSE LET i == CHOOSE n \in 1..(Cardinality(used) + 1) :
                    n \notin used /\ \A m \in 1..(n - 1) : m \in used
         IN  <<i>> \o Fresh(used \cup {i}, k - 1)

\* identities the histories still name
Remembered == {captured} \ {NULL}

\* a write to self._crash_type
WriteType(hist, v) == IF hist[Len(hist)] = v THEN hist ELSE Append(hist, v)

\* the first state of the run, before setup()
InitStates ==
    { [bb_cnt |-> 0, hooks |-> {}, trimmed |-> FALSE,
       precons |-> Len(v.cons), cons |-> v.cons, caddrs |-> v.caddrs, ac |-> v.ac] :
      v \in { [cons |-> <<Pre>>, caddrs |-> <<{v1}>>,
               ac |-> <<[expr |-> "a", vals |-> <<5, 6>>], [expr |-> "b", vals |-> <<7>>]>>],
              [cons |-> <<Pre>>, caddrs |-> <<>>,
               ac |-> <<[expr |-> "a", vals |-> <<>>], [expr |-> "b", vals |-> <<7>>]>>] } }

\* what the engine answered during one windup: the concretization events of
\* the block step and of the precise step, the block, the precise step's
\* successors, the buckets of the final step; asked tells how far it got
\* ("untraced": the run keeps no such history)
NoEng == [asked |-> "untraced", ev1 |-> <<>>, ev2 |-> <<>>, blk |-> <<>>, part |-> <<>>,
          fin |-> [flat |-> 0, unc |-> 0]]

TracedEng == [NoEng EXCEPT !.asked = "none"]

\* the history of the engine's answers goes from eng to e, if it is kept
Told(eng, e) == IF eng.asked = "untraced" THEN eng ELSE e

NoCall == [op |-> "init", ret |-> "None", log |-> <<>>, body |-> FALSE,
           seg |-> FALSE, execBefore |-> FALSE,
           windup |-> "no", start |-> NULL, insts |-> 0, blk |-> <<>>, kind |-> "none",
           eng |-> NoEng, again |-> FALSE]

Init ==
    /\ trace \in {NoTrace} \cup (0..MaxTrace)
    /\ crash_mode \in BOOLEAN
    /\ trim_history \in (IF crash_mode THEN {TRUE} ELSE BOOLEAN)   \* read at line 64 only
    /\ crash_addr \in {NULL, 1}
    /\ last_state = NULL
    /\ crash_type = None
    /\ crash_state = NULL
    /\ project = FALSE
    /\ stashes = [k \in {"active", "deadended"} |-> IF k = "active" THEN <<1>> ELSE <<>>]
    /\ \E s \in InitStates : heap = [i \in {1} |-> s]
    /\ steps = 0
    /\ completes = 0
    /\ typeHist = <<None>>
    /\ captured = NULL
    /\ windups = 0
    /\ call = NoCall

-----------------------------------------------------------------------------
(* setup(): line 38 *)
setup ==
    /\ ~project
    /\ Len(stashes["active"]) > 0
    /\ project' = TRUE
    /\ heap' = [heap EXCEPT ![stashes["active"][1]].hooks = @ \cup {"check_stack"}]
    /\ call' = [NoCall EXCEPT !.op = "setup"]
    /\ UNCHANGED <<config, last_state, crash_type, crash_state, stashes, steps, completes,
                   typeHist, captured, windups>>

-----------------------------------------------------------------------------
(* The classifier hook: _check_stack, lines 80-84.  M carries the monitor   *)
(* fields a hook can write, with their histories; symbolic is what         *)
(* state.memory.load(state.ip, ...).symbolic answers for the state.        *)
check_stack(M, sid, symbolic) ==
    IF symbolic
    THEN [M EXCEPT !.crash_type = EXEC_STACK,
                   !.crash_state = sid,
                   !.hist = WriteType(@, EXEC_STACK)]
    ELSE M

\* the 'state_step' breakpoints of the states a step produced, in order
RECURSIVE FireHooks(_, _, _, _, _)
FireHooks(M, h, ids, sc, i) ==
    IF i > Len(ids) THEN M
    ELSE FireHooks(IF "check_stack" \in h[ids[i]].hooks
                   THEN check_stack(M, ids[i], sc[i].symbolic) ELSE M,
                   h, ids, sc, i + 1)

(* simgr.step(): every active state is stepped; choice[i] holds, for the   *)
(* i-th active state, one flag per successor (symbolic memory at its ip).  *)
RECURSIVE Succs(_, _, _)
Succs(act, choice, i) ==
    IF i > Len(act) THEN <<>>
    ELSE [j \in 1..Len(choice[i]) |-> [parent |-> act[i], symbolic |-> choice[i][j]]]
         \o Succs(act, choice, i + 1)

RECURSIVE Deadended(_, _, _)
Deadended(act, choice, i) ==
    IF i > Len(act) THEN <<>>
    ELSE (IF Len(choice[i]) = 0 THEN <<act[i]>> ELSE <<>>) \o Deadended(act, choice, i + 1)

RECURSIVE TotalLen(_, _)
TotalLen(choice, i) ==
    IF i > Len(choice) THEN 0 ELSE Len(choice[i]) + TotalLen(choice, i + 1)

StepChoices(m) == {c \in [1..m -> SuccFlags] : TotalLen(c, 1) \in SuccCounts}

\* history: the crash state the hooks of one simgr.step() left when that step
\* turned the classification into EXEC_STACK
Captured(M, M2) ==
    IF M.crash_type # EXEC_STACK /\ M2.crash_type = EXEC_STACK
    THEN [M2 EXCEPT !.caps = M2.crash_state] ELSE M2

SimgrStep(h, st, M, choice) ==
    LET act == st["active"]
        sc  == Succs(act, choice, 1)
        ids == Fresh(DOMAIN h \cup Remembered, Len(sc))
        h2  == [i \in DOMAIN h \cup Range(ids) |->
                  IF i \in DOMAIN h THEN h[i]
                  ELSE LET j == CHOOSE j \in 1..Len(ids) : ids[j] = i
                       IN  [h[sc[j].parent] EXCEPT !.bb_cnt = @ + 1, !.trimmed = FALSE]]
    IN  [heap |-> h2,
         stashes |-> [st EXCEPT !["active"] = ids,
                                !["deadended"] = @ \o Deadended(act, choice, 1)],
         M |-> Captured(M, FireHooks(M, h2, ids, sc, 1))]

Monitor == [crash_type |-> crash_type, crash_state |-> crash_state,
            hist |-> typeHist, caps |-> captured]

\* the end of a tick with line 61 placed after the engine steps
StepDone_TrackSuccessor(r, M, ls, ret, log, seg) ==
    /\ heap' = Collect(r.heap, r.stashes, ls, M.crash_state)
    /\ stashes' = r.stashes
    /\ last_state' = (IF Len(r.stashes["active"]) > 0 THEN r.stashes["active"][1] ELSE ls)
    /\ crash_type' = M.crash_type
    /\ crash_state' = M.crash_state
    /\ typeHist' = M.hist
    /\ captured' = M.caps
    /\ call' = [NoCall EXCEPT !.op = "step", !.ret = ret, !.log = log, !.body = TRUE,
                              !.seg = seg,
                              !.execBefore = EXEC_STACK \in Range(r.M.hist)]

\* the end of a step() tick that ran its body: r is its last simgr.step()
StepDone(r, M, ls, ret, log, seg) ==
    /\ heap' = Collect(r.heap, r.stashes, ls, M.crash_state)
    /\ stashes' = r.stashes
    /\ last_state' = ls
    /\ crash_type' = M.crash_type
    /\ crash_state' = M.crash_state
    /\ typeHist' = M.hist
    /\ captured' = M.caps
    /\ call' = [NoCall EXCEPT !.op = "step", !.ret = ret, !.log = log, !.body = TRUE,
                              !.seg = seg,
                              !.execBefore = EXEC_STACK \in Range(r.M.hist)]

\* line 64: history is trimmed unless crash mode wants it
TrimWanted == trim_history /\ ~crash_mode

\* line 69 testing the classification the tick started with
EarlyReturn_Stale(M) == crash_type = EXEC_STACK

\* line 69: the early return once EXEC_STACK is classified
EarlyReturn(M) == M.crash_type = EXEC_STACK

\* line 73: the deadend check (the trace is not None here)
TraceExhausted(cnt) == cnt >= trace /\ crash_mode

\* line 60 reading "at least one active path"
OneActive_AtLeastOne == Len(stashes["active"]) >= 1

\* line 60: the tick runs only with exactly one active path
OneActive == Len(stashes["active"]) = 1

(* step(): lines 59-78 *)
step ==
    /\ project
    /\ UNCHANGED <<config, project, completes, windups>>
    /\ IF OneActive
       THEN /\ steps < MaxSteps
            /\ steps' = steps + 1
            /\ LET
                  ls   == stashes["active"][1]
                  h0   == IF TrimWanted THEN [heap EXCEPT ![ls].trimmed = TRUE] ELSE heap
                  log1 == (IF TrimWanted THEN <<"history.trim">> ELSE <<>>) \o <<"simgr.step">>
              IN  \E r1 \in {SimgrStep(h0, stashes, Monitor, c1) : c1 \in StepChoices(Len(stashes["active"]))} :
                  IF EarlyReturn(r1.M)
                  THEN StepDone(r1, r1.M, ls, "simgr", log1, FALSE)
                  ELSE IF trace = NoTrace
                  THEN StepDone(r1, r1.M, ls, "TypeError", log1, FALSE)   \* len(None)
                  ELSE IF TraceExhausted(h0[ls].bb_cnt)
                  THEN \E r2 \in {SimgrStep(r1.heap, r1.stashes, r1.M, c2) :
                                     c2 \in StepChoices(Len(r1.stashes["active"]))} :
                         LET M3 == [r2.M EXCEPT !.crash_type = QEMU_CRASH,
                                                !.hist = WriteType(@, QEMU_CRASH)]
                         IN  StepDone(r2, M3, ls, "simgr", Append(log1, "simgr.step"), TRUE)
                  ELSE StepDone(r1, r1.M, ls, "simgr", log1, FALSE)
       ELSE /\ call' = [NoCall EXCEPT !.op = "step", !.ret = "simgr"]
            /\ UNCHANGED <<steps, last_state, crash_type, crash_state, stashes, heap,
                           typeHist, captured>>

-----------------------------------------------------------------------------
(* The concretization hooks, lines 147-187 *)

\* _to_indices, lines 184-187: the sorted indices of the stdin variables
RECURSIVE SortedIdx(_)
SortedIdx(vs) ==
    IF vs = {} THEN <<>>
    ELSE LET v == CHOOSE x \in vs : \A y \in vs : x.idx <= y.idx
         IN  <<v.idx>> \o SortedIdx(vs \ {v})

to_indices(variables) == [exc |-> "ok", val |-> SortedIdx({v \in variables : v.stdin})]

\* line 178 calls self._to_indices inside a staticmethod: the name self is unbound
self_to_indices(variables) == [exc |-> "NameError", val |-> <<>>]

\* the loop of _add_constraints, lines 177-181
RECURSIVE ConstrainedLoop(_, _, _)
ConstrainedLoop(caddrs, hit_indices, i) ==
    IF i > Len(caddrs) THEN "False"
    ELSE LET var_indices == self_to_indices(caddrs[i])
         IN  IF var_indices.exc # "ok" THEN var_indices.exc
             ELSE IF var_indices.val = hit_indices.val THEN "True"
             ELSE ConstrainedLoop(caddrs, hit_indices, i + 1)

\* _add_constraints, lines 172-181: "True", "False" or the exception raised
add_constraints(st, ev) == ConstrainedLoop(st.caddrs, to_indices(ev.vars), 1)

\* _dont_add_constraints, lines 162-170: the flag it sets, or the exception
dont_add_constraints(st, ev) == add_constraints(st, ev)

\* _grab_concretization_results, lines 147-160: "ok" or the exception;
\* line 160 appends to self.address_concretization, self being unbound there too
grab_concretization_results(st, ev) ==
    LET a == add_constraints(st, ev)
    IN  IF a = "True" THEN (IF ~ev.resolved THEN "ok" ELSE "NameError")
        ELSE IF a = "False" THEN "ok"
        ELSE a

\* the address_concretization breakpoints of state st over the events of one
\* engine step: BP_BEFORE then BP_AFTER for each event; "ok" or the exception
RECURSIVE HookEvents(_, _, _)
HookEvents(st, evs, i) ==
    IF i > Len(evs) THEN "ok"
    ELSE LET before == IF "bp1" \in st.hooks THEN dont_add_constraints(st, evs[i]) ELSE "False"
             after  == IF "bp2" \in st.hooks THEN grab_concretization_results(st, evs[i]) ELSE "ok"
         IN  IF before \notin {"True", "False"} THEN before
             ELSE IF after # "ok" THEN after
             ELSE HookEvents(st, evs, i + 1)

-----------------------------------------------------------------------------
(* _crash_windup, lines 86-145 *)

\* lines 107-110 with concrete_vals[-1] for concrete_vals[0]
RECURSIVE ConcretizedConstraints_LastCandidate(_, _)
ConcretizedConstraints_LastCandidate(ac, i) ==
    IF i > Len(ac) THEN <<>>
    ELSE (IF Len(ac[i].vals) > 0 THEN <<Eq(ac[i].expr, ac[i].vals[Len(ac[i].vals)])>> ELSE <<>>)
         \o ConcretizedConstraints_LastCandidate(ac, i + 1)

\* lines 107-110: the constraints from the recorded concretizations
RECURSIVE ConcretizedConstraints(_, _)
ConcretizedConstraints(ac, i) ==
    IF i > Len(ac) THEN <<>>
    ELSE (IF Len(ac[i].vals) > 0 THEN <<Eq(ac[i].expr, ac[i].vals[1])>> ELSE <<>>)
         \o ConcretizedConstraints(ac, i + 1)

\* list.index answering the last occurrence
Index_Last(s, x) == (CHOOSE i \in 1..Len(s) : s[i] = x /\ \A j \in (i + 1)..Len(s) : s[j] # x) - 1

\* list.index: position (from 0) of the first occurrence
Index(s, x) == (CHOOSE i \in 1..Len(s) : s[i] = x /\ \A j \in 1..(i - 1) : s[j] # x) - 1

\* lines 113-121: how many instructions the precise step executes
InstCount(inst_addrs, addr) ==
    LET inst_cnt == Len(inst_addrs)
    IN  IF inst_cnt = 0 THEN 0
        ELSE IF addr \in Range(inst_addrs) THEN Index(inst_addrs, addr) + 1
        ELSE inst_cnt - 1

IsSat(b) == b

\* lines 125-129: the successors the precise step is left with
Filtered(succs) == IF Len(succs) > 1 THEN SelectSeq(succs, IsSat) ELSE succs

IsNotPre(c) == c.kind # "pre"

\* x carries the heap and the calls windup has made so far; s is the state

\* line 133, preconstrainer.remove_preconstraints()
remove_preconstraints(x, s) ==
    [heap |-> [x.heap EXCEPT ![s].precons = 0, ![s].cons = SelectSeq(@, IsNotPre)],
     log  |-> Append(x.log, "remove_preconstraints")]

\* line 136, preconstrainer.reconstrain()
reconstrain(x, s) ==
    [heap |-> [x.heap EXCEPT ![s].cons = Append(@, Recon)],
     log  |-> Append(x.log, "reconstrain")]

\* lines 139-140
remove_breakpoints(x, s) ==
    [heap |-> [x.heap EXCEPT ![s].hooks = @ \ {"bp1", "bp2"}],
     log  |-> x.log \o <<"remove_breakpoint", "remove_breakpoint">>]

\* lines 131-140 with reconstrain() called before remove_preconstraints()
Unpin_ReconstrainFirst(x, s) ==
    remove_breakpoints(remove_preconstraints(reconstrain(x, s), s), s)

\* lines 131-140 on the state windup is left with
Unpin(x, s) == remove_breakpoints(reconstrain(remove_preconstraints(x, s), s), s)

\* lines 144-145 with the unconstrained successors put first
FinalKind_UnconstrainedFirst(fin) ==
    LET successors == [i \in 1..fin.unc |-> "unconstrained"] \o [i \in 1..fin.flat |-> "flat"]
    IN  IF Len(successors) = 0 THEN "IndexError" ELSE successors[1]

\* lines 144-145: the successor windup returns
FinalKind(fin) ==
    LET successors == [i \in 1..fin.flat |-> "flat"] \o [i \in 1..fin.unc |-> "unconstrained"]
    IN  IF Len(successors) = 0 THEN "IndexError" ELSE successors[1]

WindupEnd(exc, h, ls, result, log, start, insts, eng, kind) ==
    [exc |-> exc, heap |-> h, last_state |-> ls, result |-> result, log |-> log,
     start |-> start, insts |-> insts, kind |-> kind, eng |-> eng]

(* What the engine answers during a windup is chosen from small sets: the  *)
(* concretization events of the block step (ev1) and of the precise step   *)
(* (ev2), the block (blk), the satisfiability of the precise step's        *)
(* successors (part) and the buckets of the final step (fin).  Each stage  *)
(* yields the set of ways the windup can end from there; eng collects the  *)
(* answers given so far.                                                   *)

\* blocks the engine hands windup
WindupBlocks == {<<2, 1>>}

IsPrefix(s, t) == Len(s) <= Len(t) /\ \A i \in 1..Len(s) : s[i] = t[i]

\* lines 142-145 answering None when the final step has no successor
WindupFinal_ReturnNone(h, state, start, eng, insts, log, fin) ==
    IF FinalKind(fin) = "IndexError"
    THEN WindupEnd("ok", h, state, NULL, log, start, insts,
                   Told(eng, [eng EXCEPT !.asked = "final", !.fin = fin]), "none")
    ELSE LET rid == Fresh(DOMAIN h \cup Remembered, 1)[1]
         IN  WindupEnd("ok", [i \in DOMAIN h \cup {rid} |-> IF i = rid THEN h[state] ELSE h[i]],
                       state, rid, log, start, insts,
                       Told(eng, [eng EXCEPT !.asked = "final", !.fin = fin]), FinalKind(fin))

\* lines 142-145: the final step from state, and the successor returned
WindupFinal(h, state, start, eng, insts, log, fin) ==
    IF FinalKind(fin) = "IndexError"
    THEN WindupEnd("IndexError", h, state, NULL, log, start, insts,
                   Told(eng, [eng EXCEPT !.asked = "final", !.fin = fin]), "none")
    ELSE LET rid == Fresh(DOMAIN h \cup Remembered, 1)[1]
         IN  WindupEnd("ok", [i \in DOMAIN h \cup {rid} |-> IF i = rid THEN h[state] ELSE h[i]],
                       state, rid, log, start, insts,
                       Told(eng, [eng EXCEPT !.asked = "final", !.fin = fin]), FinalKind(fin))

\* lines 131-140 on state, the state windup goes on with
WindupUnpin(h, state, start, eng, insts, log) ==
    {WindupFinal(x.heap, state, start, eng, insts, Append(x.log, "state.step"), fin) :
       x \in {Unpin([heap |-> h, log |-> log], state)}, fin \in FinalSteps}

\* lines 125-129: the successor adopted after the precise step
WindupAdopt(h, ls, eng, insts, log, part) ==
    IF Len(part) = 0
    THEN WindupUnpin(h, ls, ls, Told(eng, [eng EXCEPT !.part = part]), insts, log)
    ELSE IF Len(Filtered(part)) = 0
    THEN {WindupEnd("IndexError", h, ls, NULL, log, ls, insts, Told(eng, [eng EXCEPT !.part = part]), "none")}
    ELSE LET nid == Fresh(DOMAIN h \cup Remembered, 1)[1]
         IN  WindupUnpin([i \in DOMAIN h \cup {nid} |-> IF i = nid THEN h[ls] ELSE h[i]],
                         nid, ls, Told(eng, [eng EXCEPT !.part = part]), insts, log)

\* line 123: the precise step of insts instructions
WindupPrecise(h, ls, eng, insts, log, ev2) ==
    IF HookEvents(h[ls], ev2, 1) # "ok"
    THEN {WindupEnd(HookEvents(h[ls], ev2, 1), h, ls, NULL, log, ls, insts,
                    Told(eng, [eng EXCEPT !.asked = "precise", !.ev2 = ev2]), "none")}
    ELSE UNION {WindupAdopt(h, ls, Told(eng, [eng EXCEPT !.asked = "precise", !.ev2 = ev2]),
                            insts, log, part) : part \in SuccFlags}

\* lines 107-110 taking each first candidate off the recorded list
AddBack_Pop(h, ls) ==
    [h EXCEPT ![ls].cons = @ \o ConcretizedConstraints(h[ls].ac, 1),
              ![ls].ac = [i \in DOMAIN @ |->
                            [@[i] EXCEPT !.vals = IF Len(@) > 0 THEN Tail(@) ELSE @]]]

\* lines 107-110: the constraints from the recorded concretizations are added
AddBack(h, ls) == [h EXCEPT ![ls].cons = @ \o ConcretizedConstraints(h[ls].ac, 1)]

\* lines 106-121: the constraints added back, the instruction count
WindupCount(h, ls, eng, log, ev1) ==
    UNION {WindupPrecise(h2, ls, Told(eng, [eng EXCEPT !.ev1 = ev1, !.blk = blk]),
                         InstCount(blk, crash_addr), log2, ev2) :
             h2 \in {AddBack(h, ls)},
             log2 \in {log \o [i \in 1..(Len(AddBack(h, ls)[ls].cons) - Len(h[ls].cons)) |->
                                 "add_constraints"] \o <<"state.step">>},
             blk \in WindupBlocks,
             ev2 \in {e \in EventSeqs : IsPrefix(e, ev1)}}

\* lines 102-104: the block step
WindupBlock(h, ls, eng, log, ev1) ==
    IF HookEvents(h[ls], ev1, 1) # "ok"
    THEN {WindupEnd(HookEvents(h[ls], ev1, 1), h, ls, NULL, log, ls, 0,
                    Told(eng, [eng EXCEPT !.asked = "block", !.ev1 = ev1]), "none")}
    ELSE WindupCount(h, ls, eng, log, ev1)

\* lines 86-100: the two breakpoints are set on last_state
crash_windup(h, ls, eng) ==
    IF ls = NULL THEN {WindupEnd("AttributeError", h, ls, NULL, <<>>, NULL, 0, eng, "none")}
    ELSE UNION {WindupBlock(h1, ls, eng, <<"inspect.b", "inspect.b", "state.step">>, ev1) :
                  h1 \in {[h EXCEPT ![ls].hooks = @ \cup {"bp1", "bp2"}]},
                  ev1 \in EventSeqs}

-----------------------------------------------------------------------------
(* complete(): lines 42-57 *)

\* lines 45, 53-54 appending to the 'crashed' stash instead of setting it
WithCrashed_Append(st, cs) ==
    [k \in DOMAIN st \cup {"crashed"} |->
       IF k = "crashed" THEN (IF k \in DOMAIN st THEN Append(st[k], cs) ELSE <<cs>>)
       ELSE st[k]]

\* lines 45, 53-54: the stashes with the 'crashed' stash set
WithCrashed(st, cs) ==
    [k \in DOMAIN st \cup {"crashed"} |-> IF k = "crashed" THEN <<cs>> ELSE st[k]]

\* line 44 testing for QEMU_CRASH only
Classified_SegFaultOnly == crash_type = QEMU_CRASH

\* line 44
Classified == crash_type # None

\* line 46
NeedsWindup == crash_type = QEMU_CRASH

CompleteTrue(h, ls, cs, c) ==
    /\ stashes' = WithCrashed(stashes, cs)
    /\ heap' = Collect(h, WithCrashed(stashes, cs), ls, cs)
    /\ last_state' = ls
    /\ crash_state' = cs
    /\ call' = [c EXCEPT !.op = "complete", !.ret = "True"]

CompleteRaise(h, ls, c, exc) ==
    /\ heap' = Collect(h, stashes, ls, crash_state)
    /\ last_state' = ls
    /\ call' = [c EXCEPT !.op = "complete", !.ret = exc]
    /\ UNCHANGED <<stashes, crash_state>>

\* history of a traced run: windup returned twice in a row, from the same
\* tracked state and with the engine answering the same
Again(w, traced) ==
    /\ traced
    /\ call.windup = "returned" /\ w.exc = "ok"
    /\ w.start = call.start /\ w.eng = call.eng

Complete(traced) ==
    /\ project
    /\ UNCHANGED <<config, project, steps, crash_type, typeHist, captured>>
    /\ IF Classified
       THEN /\ completes < MaxCompletes
            /\ completes' = completes + 1
            /\ IF NeedsWindup
               THEN IF trace = NoTrace
                 THEN windups' = windups /\ CompleteRaise(heap, last_state, NoCall, "TypeError")
                 ELSE IF trace = 0       \* line 47: self._trace[-1] of an empty trace
                 THEN windups' = windups /\ CompleteRaise(heap, last_state, NoCall, "IndexError")
                 ELSE \E w \in crash_windup(heap, last_state, IF traced THEN TracedEng ELSE NoEng) :
                        LET c == [NoCall EXCEPT !.log = w.log, !.start = w.start,
                                                !.insts = w.insts,
                                                !.kind = w.kind,
                                                !.eng = w.eng,
                                                !.again = Again(w, traced),
                                                !.windup = IF w.exc = "ok" THEN "returned"
                                                           ELSE "raised"]
                        IN  /\ windups' = windups + 1
                            /\ IF w.exc = "ok"
                               THEN CompleteTrue(w.heap, w.last_state, w.result, c)
                               ELSE CompleteRaise(w.heap, w.last_state, c, w.exc)
               ELSE windups' = windups /\ CompleteTrue(heap, last_state, crash_state, NoCall)
       ELSE /\ call' = [NoCall EXCEPT !.op = "complete", !.ret = "False"]
            /\ UNCHANGED <<completes, last_state, crash_state, stashes, heap, windups>>

complete == Complete(FALSE)

Next == setup \/ step \/ complete

Spec == Init /\ [][Next]_vars

-----------------------------------------------------------------------------
(* complete() on its own, from the states in which a tick of step() has    *)
(* just classified SEG_FAULT at the end of the trace: the tracked state    *)
(* has run the trace's blocks and has no successor.  The history keeps     *)
(* what the engine answered during each windup.                            *)
InitWindup ==
    /\ trace \in 0..MaxTrace
    /\ crash_mode = TRUE
    /\ trim_history = TRUE
    /\ crash_addr \in {NULL, 1}
    /\ last_state = trace + 1
    /\ crash_type = QEMU_CRASH
    /\ crash_state = NULL
    /\ project = TRUE
    /\ stashes = [k \in {"active", "deadended"} |->
                    IF k = "deadended" THEN <<trace + 1>> ELSE <<>>]
    /\ \E s \in InitStates :
          heap = [i \in {trace + 1} |->
                    [s EXCEPT !.bb_cnt = trace, !.hooks = {"check_stack"}]]
    /\ steps = trace + 1
    /\ completes = 0
    /\ typeHist = <<None, QEMU_CRASH>>
    /\ captured = NULL
    /\ windups = 0
    /\ call = [NoCall EXCEPT !.op = "step", !.ret = "simgr", !.body = TRUE, !.seg = TRUE,
                             !.log = <<"simgr.step", "simgr.step">>]

complete_traced == Complete(TRUE)

NextWindup == complete_traced

SpecWindup == InitWindup /\ [][NextWindup]_vars

-----------------------------------------------------------------------------
(* The two concretization hooks on their own: a state with any list of     *)
(* constrained addresses up to MaxConstrained meets one address            *)
(* concretization; the engine fires the BP_BEFORE hook, then the BP_AFTER   *)
(* hook.  flag is state.inspect.address_concretization_add_constraints.    *)
HookVars == {v1, v2, v3}

HookEvent == {[expr |-> "a", vars |-> vs, resolved |-> r,
               result |-> IF r THEN <<5, 6>> ELSE <<>>] :
                 vs \in SUBSET HookVars, r \in BOOLEAN}

InitHooks ==
    /\ trace = 1
    /\ trim_history = TRUE
    /\ crash_mode = TRUE
    /\ crash_addr = NULL
    /\ last_state = 1
    /\ crash_type = QEMU_CRASH
    /\ crash_state = NULL
    /\ project = TRUE
    /\ stashes = [k \in {"active", "deadended"} |-> IF k = "deadended" THEN <<1>> ELSE <<>>]
    /\ \E ca \in UNION {[1..n -> SUBSET HookVars] : n \in 0..MaxConstrained} :
          heap = [i \in {1} |->
                    [bb_cnt |-> 1, hooks |-> {"check_stack", "bp1", "bp2"}, trimmed |-> FALSE,
                     precons |-> 1, cons |-> <<Pre>>, caddrs |-> ca, ac |-> <<>>,
                     flag |-> "unset"]]
    /\ steps = 1
    /\ completes = 0
    /\ typeHist = <<None, QEMU_CRASH>>
    /\ captured = NULL
    /\ windups = 0
    /\ \E e \in HookEvent :
          call = [NoCall EXCEPT !.eng = [TracedEng EXCEPT !.asked = "block", !.ev1 = <<e>>]]

\* BP_BEFORE: _dont_add_constraints, lines 162-170
before_hook ==
    /\ call.op = "init"
    /\ \E r \in {dont_add_constraints(heap[last_state], call.eng.ev1[1])} :
          /\ call' = [call EXCEPT !.op = "before", !.ret = r]
          /\ heap' = IF r \in {"True", "False"}
                     THEN [heap EXCEPT ![last_state].flag = r] ELSE heap
    /\ UNCHANGED <<config, last_state, crash_type, crash_state, project, stashes,
                   steps, completes, typeHist, captured, windups>>

\* BP_AFTER: _grab_concretization_results, lines 147-160; nothing is appended
\* to the state's address_concretization on any path that does not raise
after_hook ==
    /\ call.op = "before" /\ call.ret \in {"True", "False"}
    /\ call' = [call EXCEPT !.op = "after",
                            !.ret = grab_concretization_results(heap[last_state],
                                                                call.eng.ev1[1])]
    /\ UNCHANGED <<config, last_state, crash_type, crash_state, project, stashes, heap,
                   steps, completes, typeHist, captured, windups>>

NextHooks == before_hook \/ after_hook

SpecHooks == InitHooks /\ [][NextHooks]_vars

-----------------------------------------------------------------------------
(* The instruction count of lines 113-121 on its own, over every block up  *)
(* to MaxBlock instructions and every crash_addr.                          *)
InitInsts ==
    /\ trace = NoTrace
    /\ trim_history = TRUE
    /\ crash_mode = FALSE
    /\ crash_addr \in {NULL} \cup Addrs
    /\ last_state = NULL
    /\ crash_type = None
    /\ crash_state = NULL
    /\ project = FALSE
    /\ stashes = [k \in {"active", "deadended"} |-> <<>>]
    /\ heap = [i \in {} |-> 0]
    /\ steps = 0
    /\ completes = 0
    /\ typeHist = <<None>>
    /\ captured = NULL
    /\ windups = 0
    /\ call \in {[NoCall EXCEPT !.blk = b] : b \in Blocks}

select_insts ==
    /\ call.op = "init"
    /\ call' = [call EXCEPT !.op = "insts", !.insts = InstCount(call.blk, crash_addr)]
    /\ UNCHANGED <<config, last_state, crash_type, crash_state, project, stashes, heap,
                   steps, completes, typeHist, captured, windups>>

NextInsts == select_insts

SpecInsts == InitInsts /\ [][NextInsts]_vars

-----------------------------------------------------------------------------
(* Properties *)

\* C1: the classification is write-once: every write that changes _crash_type
\* replaces None, so the only transitions are None -> EXEC_STACK and
\* None -> SEG_FAULT, and no SEG_FAULT follows an EXEC_STACK.
C1_WriteOnce == \A i \in 1..(Len(typeHist) - 1) : typeHist[i] = None

\* C2: a step() tick classifies SEG_FAULT exactly when it found one active path,
\* the tracked path's bb_cnt has reached the trace length, crash_mode is on and
\* EXEC_STACK was never classified before; otherwise it never does.
C2_SegFaultExactly ==
    (call.op = "step" /\ call.ret = "simgr") =>
        (call.seg <=> (/\ call.body
                       /\ crash_mode
                       /\ heap[last_state].bb_cnt >= trace
                       /\ ~call.execBefore))

\* C3 as stated: complete() returns True if and only if a classification is
\* set, and when it returns False it leaves the stashes, the classification,
\* last_state and the crash state unchanged.
C3_TrueIffClassified ==
    [][call'.op = "complete" =>
          /\ (call'.ret = "True") <=> (crash_type # None)
          /\ (call'.ret = "False") =>
                UNCHANGED <<stashes, crash_type, last_state, crash_state, heap>>]_vars

\* C3 amended: whenever complete() returns, it returns True if and only if a
\* classification is set (with a classification set it may instead raise);
\* it returns False exactly when none is set, and then leaves the stashes,
\* the classification, last_state and the crash state unchanged.
C3_ReturnsIffClassified ==
    [][call'.op = "complete" =>
          /\ (call'.ret = "True") => (crash_type # None)
          /\ (call'.ret = "False") <=> (crash_type = None)
          /\ (call'.ret = "False") =>
                UNCHANGED <<stashes, crash_type, last_state, crash_state, heap>>]_vars

\* complete() answered False after a tick of step() ran its body
C3_Witness == call.op = "complete" /\ call.ret = "False" /\ steps > 0

\* C4: whenever complete() returns True the 'crashed' stash holds exactly one
\* element, an actual state (not None), and every other stash keeps the
\* contents it had before the call.
C4_OneCrashedState ==
    [][(call'.op = "complete" /\ call'.ret = "True") =>
          /\ DOMAIN stashes' = DOMAIN stashes \cup {"crashed"}
          /\ Len(stashes'["crashed"]) = 1
          /\ stashes'["crashed"][1] # NULL
          /\ stashes'["crashed"][1] \in DOMAIN heap'
          /\ \A k \in DOMAIN stashes \ {"crashed"} : stashes'[k] = stashes[k]]_vars

\* complete() returned True a second time, other stashes being non-empty
C4_Witness ==
    /\ call.op = "complete" /\ call.ret = "True" /\ completes = 2
    /\ Len(stashes["crashed"]) = 1
    /\ Len(stashes["active"]) > 0

\* C5: once _check_stack classified EXEC_STACK, the state complete() puts in
\* the 'crashed' stash is the state the hook captured when it classified,
\* and windup is not run, whatever ticks came in between.
C5_CapturedState ==
    (call.op = "complete" /\ call.ret = "True" /\ crash_type = EXEC_STACK) =>
        (stashes["crashed"] = <<captured>> /\ call.windup = "no")

\* C6: complete() is idempotent once a classification exists: a complete()
\* that follows a complete() that returned True returns True too, leaves
\* the same state in the 'crashed' stash, and windup has run at most once.
C6_Idempotent ==
    [][(call.op = "complete" /\ call.ret = "True" /\ call'.op = "complete") =>
          /\ call'.ret = "True"
          /\ stashes'["crashed"] = stashes["crashed"]
          /\ windups' <= 1]_vars

\* C7: step() with zero or several active paths is a no-op: no engine step, no
\* history trim, and last_state, the classification, the crash state, the
\* stashes and the states are left as they were.
C7_NoOpUnlessOneActive ==
    [][(call'.op = "step" /\ Len(stashes["active"]) # 1) =>
          /\ call'.log = <<>>
          /\ ~call'.body /\ ~call'.seg
          /\ UNCHANGED <<last_state, crash_type, crash_state, stashes, heap, typeHist>>]_vars

\* a tick that found two active paths
C7_Witness == call.op = "step" /\ ~call.body /\ Len(stashes["active"]) = 2

\* C8: the instruction count of the precise step is 0 for an empty block, i + 1
\* when crash_addr first occurs at index i (from 0) of the block, the block
\* length minus one when crash_addr is None or not in the block, and always
\* between 0 and the block length.
C8_InstCount ==
    call.op = "insts" =>
        LET b == call.blk
            n == Len(call.blk)
        IN  /\ (n = 0) => (call.insts = 0)
            /\ \A i \in 1..n :
                 (b[i] = crash_addr /\ \A j \in 1..(i - 1) : b[j] # crash_addr)
                     => (call.insts = i)
            /\ (n > 0 /\ \A i \in 1..n : b[i] # crash_addr) => (call.insts = n - 1)
            /\ call.insts \in 0..n

\* a block where crash_addr occurs twice, first at index 1
C8_Witness ==
    /\ call.op = "insts" /\ Len(call.blk) = 3 /\ call.insts = 2
    /\ call.blk[2] = crash_addr /\ call.blk[3] = crash_addr

\* C9: after windup, whether it returned or raised, neither concretization
\* breakpoint is left on a state the monitor references: the crash state
\* and last_state.
C9_BreakpointsRemoved ==
    call.windup # "no" =>
        \A i \in {last_state, crash_state} \ {NULL} :
            heap[i].hooks \cap {"bp1", "bp2"} = {}

\* C10: the state windup returns has no preconstraints left and carries the
\* reconstrain() constraints; reconstrain() was called after
\* remove_preconstraints() and before the final step.
C10_Reconstrained ==
    call.windup = "returned" =>
        LET s   == heap[crash_state]
            log == call.log
            n   == Len(call.log)
        IN  /\ s.precons = 0
            /\ \A c \in Range(s.cons) : c.kind # "pre"
            /\ Recon \in Range(s.cons)
            /\ log[n] = "state.step"
            /\ \E i \in 1..n : \E j \in (i + 1)..(n - 1) :
                 /\ log[i] = "remove_preconstraints"
                 /\ log[j] = "reconstrain"
                 /\ \A k \in (j + 1)..(n - 1) :
                      log[k] \notin {"state.step", "remove_preconstraints"}

\* the first windup of a run returned: its state started with a preconstraint
C10_Witness ==
    /\ call.windup = "returned" /\ windups = 1
    /\ call.kind = "flat"
    /\ heap[crash_state].precons = 0

\* C11: under a SEG_FAULT classification complete() either returns True with
\* exactly one crash state in the 'crashed' stash or raises and leaves the
\* stashes and the crash state as they were; when windup's final step has
\* neither a flat nor an unconstrained successor it raises.
C11_CrashStateOrFailure ==
    [][(call'.op = "complete" /\ crash_type = QEMU_CRASH) =>
          /\ \/ /\ call'.ret = "True"
                /\ Len(stashes'["crashed"]) = 1
                /\ stashes'["crashed"][1] \in DOMAIN heap'
             \/ /\ call'.ret \notin {"True", "False"}
                /\ stashes' = stashes
                /\ crash_state' = crash_state
          /\ (call'.eng.asked = "final" /\ call'.eng.fin = [flat |-> 0, unc |-> 0]) =>
                (call'.ret = "IndexError" /\ stashes' = stashes)]_vars

\* the first windup of a run reached a final step without successors
C11_Witness ==
    /\ call.op = "complete" /\ call.ret = "IndexError"
    /\ call.eng.asked = "final" /\ call.eng.fin = [flat |-> 0, unc |-> 0]
    /\ "crashed" \notin DOMAIN stashes

C13_NoTraceAsEmpty ==
    (trace = NoTrace /\ call.op = "step" /\ call.body) =>
        /\ call.ret = "simgr"
        /\ call.log \in {<<"simgr.step">>, <<"history.trim", "simgr.step">>}
        /\ ~crash_mode => ~call.seg

\* C14: a step() tick with one active path makes exactly one engine step,
\* except the tick that classifies SEG_FAULT, which makes two and writes
\* the classification after the second; a tick on which EXEC_STACK is
\* classified before or during its engine step returns after that one
\* step, the trace-exhaustion check not being evaluated.
C14_EngineSteps ==
    (call.op = "step" /\ call.body) =>
        LET n == Cardinality({i \in DOMAIN call.log : call.log[i] = "simgr.step"})
        IN  /\ n = (IF call.seg THEN 2 ELSE 1)
            /\ call.seg => crash_type = QEMU_CRASH
            /\ crash_type = EXEC_STACK => (n = 1 /\ ~call.seg /\ call.ret = "simgr")

\* a tick in crash mode, at the end of the trace, on which EXEC_STACK was
\* classified: one engine step
C14_Witness ==
    /\ call.op = "step" /\ call.body /\ crash_type = EXEC_STACK
    /\ crash_mode /\ trace # NoTrace /\ heap[last_state].bb_cnt >= trace
    /\ call.log = <<"simgr.step">>

\* C15: the BP_AFTER hook records the pair (address expression, candidates) of
\* every address concretization, whatever the BP_BEFORE hook decided, and
\* does not fail.
C15_AlwaysRecorded ==
    call.op = "after" =>
        /\ call.ret = "ok"
        /\ \E i \in DOMAIN heap[last_state].ac :
             heap[last_state].ac[i] = [expr |-> call.eng.ev1[1].expr,
                                       vals |-> call.eng.ev1[1].result]

\* C16: the BP_BEFORE hook sets the add-constraints flag to true if and only
\* if the variables of the address expression are the variables of some
\* constrained address, and to false in every other case.
C16_FlagIffSameVariables ==
    call.op = "before" =>
        LET st == heap[last_state]
            e  == call.eng.ev1[1]
        IN  st.flag = (IF \E i \in DOMAIN st.caddrs : st.caddrs[i] = e.vars
                       THEN "True" ELSE "False")

\* C17: between windup's block step and its precise step the state gets, in
\* the order of the recorded concretizations, one equality (expression ==
\* first candidate) for each record with a candidate, none for a record
\* without, and no other candidate is used.
C17_AddedBack ==
    [][(call'.windup # "no" /\ call'.eng.asked \in {"precise", "final"}) =>
          LET ac  == heap[last_state].ac
              Exp[i \in 0..Len(ac)] ==
                  IF i = 0 THEN <<>>
                  ELSE IF ac[i].vals = <<>> THEN Exp[i - 1]
                  ELSE Append(Exp[i - 1], [kind |-> "eq", expr |-> ac[i].expr,
                                           val |-> Head(ac[i].vals)])
              n   == Len(Exp[Len(ac)])
              IsEq(c) == c.kind = "eq"
              log == call'.log
          IN  /\ SelectSeq(heap'[last_state'].cons, IsEq)
                    = SelectSeq(heap[last_state].cons, IsEq) \o Exp[Len(ac)]
              /\ log[3] = "state.step" /\ log[4 + n] = "state.step"
              /\ \A k \in DOMAIN log : log[k] = "add_constraints" <=> (3 < k /\ k < 4 + n)]_vars

\* a first windup went past its block step on a state with a record that
\* has two candidates and a record that has none
C17_Witness ==
    /\ call.windup # "no" /\ call.eng.asked = "final" /\ windups = 1
    /\ \E i, j \in DOMAIN heap[call.start].ac :
         /\ Len(heap[call.start].ac[i].vals) = 0
         /\ Len(heap[call.start].ac[j].vals) > 0
    /\ \E k \in DOMAIN call.log : call.log[k] = "add_constraints"

\* C18: after windup's precise step: without a successor the state and
\* last_state stay as they are; with one successor it becomes the state and
\* last_state; with several the first satisfiable one does; and windup
\* goes on to remove the preconstraints in every case.
C18_AdoptAndProceed ==
    [][(/\ call'.windup # "no"
        /\ \/ call'.eng.asked = "final"
           \/ call'.eng.asked = "precise" /\ call'.ret # "NameError") =>
          LET part == call'.eng.part
          IN  /\ \E k \in DOMAIN call'.log : call'.log[k] = "remove_preconstraints"
              /\ Len(part) = 0 => last_state' = last_state
              /\ Len(part) > 0 => last_state' # last_state
              /\ Len(part) > 1 => \E i \in DOMAIN part : part[i]]_vars

\* C19: the state windup returns comes from the flat successors of the final
\* step whenever there is one, and from the unconstrained successors
\* otherwise.
C19_FlatPreferred ==
    call.windup = "returned" =>
        /\ call.eng.fin.flat > 0 => call.kind = "flat"
        /\ call.eng.fin.flat = 0 => (call.eng.fin.unc > 0 /\ call.kind = "unconstrained")

\* the final step had a flat and an unconstrained successor
C19_Witness ==
    /\ call.windup = "returned" /\ call.kind = "flat"
    /\ call.eng.fin = [flat |-> 1, unc |-> 1]

\* C20: whenever the classification is SEG_FAULT last_state is set, and the
\* tick that classifies SEG_FAULT leaves in last_state the one active path
\* it started with, as it was before the tick's engine steps.
C20_LastStateSet ==
    /\ [](crash_type = QEMU_CRASH => (last_state # NULL /\ last_state \in DOMAIN heap))
    /\ [][(call'.op = "step" /\ call'.seg) =>
             /\ stashes["active"] = <<last_state'>>
             /\ heap'[last_state'] = heap[last_state']]_vars

\* SEG_FAULT was classified by a tick whose engine steps left an active path
C20_Witness ==
    /\ call.op = "step" /\ call.seg /\ crash_type = QEMU_CRASH
    /\ Len(stashes["active"]) > 0
    /\ last_state \notin Range(stashes["active"])

====
